---- MODULE Spec2Model ----
(***************************************************************************)
(* Model of extractor.py: the DataExtractor pattern registry, the regular  *)
(* expression matching that re.findall performs on it, _unique_sorted,     *)
(* extract_all, and the process_file / demo collaborators.                 *)
(*                                                                         *)
(* A string is a sequence of one-character strings.  Positions are 1-based: *)
(* position i is the gap before t[i]; Len(t)+1 is the end of the text.      *)
(* The model alphabet is ASCII.                                            *)
(***************************************************************************)
EXTENDS Integers, Sequences, FiniteSets, TLC

VARIABLES patterns, text, matches, result, called,
          pc, argv, typed, fileState, fileText, outState,
          filename, results, stdout, trace, crashed

coreVars == <<patterns, text, matches, result, called>>
demoVars == <<pc, argv, typed, fileState, fileText, outState,
              filename, results, stdout, trace, crashed>>
vars == <<patterns, text, matches, result, called,
          pc, argv, typed, fileState, fileText, outState,
          filename, results, stdout, trace, crashed>>

(***************************************************************************)
(* Characters.                                                             *)
(***************************************************************************)
Digit == {"0","1","2","3","4","5","6","7","8","9"}
Upper == {"A","B","C","D","E","F","G","H","I","J","K","L","M",
          "N","O","P","Q","R","S","T","U","V","W","X","Y","Z"}
Lower == {"a","b","c","d","e","f","g","h","i","j","k","l","m",
          "n","o","p","q","r","s","t","u","v","w","x","y","z"}
Space == {" ", "\t", "\n", "\r", "\f"}
Word  == Upper \cup Lower \cup Digit \cup {"_"}

\* The printable ASCII characters in code order, starting at code 32 (the
\* backquote, code 96, cannot be written in a string here and is not used).
Ascii == <<" ","!","\"","#","$","%","&","'","(",")","*","+",",","-",".","/",
           "0","1","2","3","4","5","6","7","8","9",":",";","<","=",">","?",
           "@","A","B","C","D","E","F","G","H","I","J","K","L","M","N","O",
           "P","Q","R","S","T","U","V","W","X","Y","Z","[","\\","]","^","_",
           "grave","a","b","c","d","e","f","g","h","i","j","k","l","m","n","o",
           "p","q","r","s","t","u","v","w","x","y","z","{","|","}","~">>

\* ord(c): the code point of a character.
OrdTable ==
  [c \in {Ascii[k] : k \in 1..Len(Ascii)} \cup {"\t", "\n", "\f", "\r"} |->
     CASE c = "\t" -> 9
       [] c = "\n" -> 10
       [] c = "\f" -> 12
       [] c = "\r" -> 13
       [] OTHER -> 31 + (CHOOSE k \in 1..Len(Ascii) : Ascii[k] = c)]
Ord(c) == OrdTable[c]

\* str.lower() on one ASCII character, as re.IGNORECASE folds it.
LowerOf(c) == IF c \in Upper THEN Ascii[(Ord(c) - 31) + 32] ELSE c

(***************************************************************************)
(* Regular expression syntax trees (what re.compile builds).               *)
(***************************************************************************)
Lit(c)         == [k |-> "lit", c |-> c]
Cls(S)         == [k |-> "set", s |-> S]
NotCls(S)      == [k |-> "nset", s |-> S]
Cat(xs)        == [k |-> "cat", xs |-> xs]
Alt(xs)        == [k |-> "alt", xs |-> xs]
Rep(x, lo, hi) == [k |-> "rep", x |-> x, lo |-> lo, hi |-> hi]
WordB          == [k |-> "wb"]
NotAhead(x)    == [k |-> "nla", x |-> x]
NotBehind(x)   == [k |-> "nlb", x |-> x]
\* The upper limit of + and {2,}.
Unbounded      == -1
Opt(x)         == Rep(x, 0, 1)
Plus(x)        == Rep(x, 1, Unbounded)

(***************************************************************************)
(* Backtracking matcher.  Ends(n, t, i, ic) is the sequence of positions   *)
(* at which node n can stop when started at position i of t, in the order  *)
(* in which the backtracking engine tries them (greedy repetition first,   *)
(* alternatives left to right).  ic is re.IGNORECASE.                      *)
(***************************************************************************)
IsWordAt(t, i) == i >= 1 /\ i <= Len(t) /\ t[i] \in Word

InCls(c, S, ic) == c \in S \/ (ic /\ \E d \in S : LowerOf(d) = LowerOf(c))

RECURSIVE Ends(_, _, _, _)
RECURSIVE CatEnds(_, _, _, _, _)
RECURSIVE CatEach(_, _, _, _, _, _)
RECURSIVE AltEnds(_, _, _, _, _)
RECURSIVE RepEnds(_, _, _, _, _)
RECURSIVE RepEach(_, _, _, _, _, _)

Ends(n, t, i, ic) ==
  CASE n.k = "lit"  -> IF i <= Len(t) /\ InCls(t[i], {n.c}, ic) THEN <<i + 1>> ELSE <<>>
    [] n.k = "set"  -> IF i <= Len(t) /\ InCls(t[i], n.s, ic) THEN <<i + 1>> ELSE <<>>
    [] n.k = "nset" -> IF i <= Len(t) /\ ~InCls(t[i], n.s, ic) THEN <<i + 1>> ELSE <<>>
    [] n.k = "wb"   -> IF IsWordAt(t, i - 1) # IsWordAt(t, i) THEN <<i>> ELSE <<>>
    [] n.k = "nla"  -> IF Ends(n.x, t, i, ic) = <<>> THEN <<i>> ELSE <<>>
    [] n.k = "nlb"  -> IF i > 1 /\ Ends(n.x, t, i - 1, ic) = <<i>> THEN <<>> ELSE <<i>>
    [] n.k = "cat"  -> CatEnds(n.xs, 1, t, i, ic)
    [] n.k = "alt"  -> AltEnds(n.xs, 1, t, i, ic)
    [] n.k = "rep"  -> RepEnds(n, 0, t, i, ic)

\* xs[j..] in sequence from position i.
CatEnds(xs, j, t, i, ic) ==
  IF j > Len(xs) THEN <<i>>
  ELSE CatEach(Ends(xs[j], t, i, ic), 1, xs, j + 1, t, ic)

\* Continue with xs[j..] from each of the positions es[m..], in order.
CatEach(es, m, xs, j, t, ic) ==
  IF m > Len(es) THEN <<>>
  ELSE CatEnds(xs, j, t, es[m], ic) \o CatEach(es, m + 1, xs, j, t, ic)

\* The alternatives xs[j..], left to right.
AltEnds(xs, j, t, i, ic) ==
  IF j > Len(xs) THEN <<>>
  ELSE Ends(xs[j], t, i, ic) \o AltEnds(xs, j + 1, t, i, ic)

\* Greedy repetition after `done` iterations: one more first, then stop.
RepEnds(n, done, t, i, ic) ==
  (IF n.hi = Unbounded \/ done < n.hi
     THEN RepEach(Ends(n.x, t, i, ic), 1, n, done + 1, t, ic)
     ELSE <<>>)
  \o (IF done >= n.lo THEN <<i>> ELSE <<>>)

RepEach(es, m, n, done, t, ic) ==
  IF m > Len(es) THEN <<>>
  ELSE RepEnds(n, done, t, es[m], ic) \o RepEach(es, m + 1, n, done, t, ic)

\* Pattern.match at position i: the end of the first successful path, 0 if none.
MatchAt(ast, ic, t, i) ==
  LET es == Ends(ast, t, i, ic) IN IF es = <<>> THEN 0 ELSE es[1]

(***************************************************************************)
(* The pattern registry of DataExtractor.__init__.                         *)
(***************************************************************************)
D(n) == Rep(Cls(Digit), n, n)

\* \b[a-zA-Z0-9._%+-]+@[a-zA-Z0-9.-]+\.[A-Za-z]{2,}\b
Re_email ==
  Cat(<<WordB,
        Plus(Cls(Lower \cup Upper \cup Digit \cup {".", "_", "%", "+", "-"})),
        Lit("@"),
        Plus(Cls(Lower \cup Upper \cup Digit \cup {".", "-"})),
        Lit("."),
        Rep(Cls(Upper \cup Lower), 2, Unbounded),
        WordB>>)

\* https?://[^\s\)\]\}\,>"\']+   (the class ends with the two quotes " and ')
Re_url ==
  Cat(<<Lit("h"), Lit("t"), Lit("t"), Lit("p"), Opt(Lit("s")),
        Lit(":"), Lit("/"), Lit("/"),
        Plus(NotCls(Space \cup {")", "]", "}", ",", ">", "\"", "'"}))>>)

\* (?:\(?\d{3}\)?[-.\s]?\d{3}[-.\s]?\d{4}|\b\d{10}\b)
Re_phone ==
  Alt(<<Cat(<<Opt(Lit("(")), D(3), Opt(Lit(")")),
              Opt(Cls({"-", "."} \cup Space)), D(3),
              Opt(Cls({"-", "."} \cup Space)), D(4)>>),
        Cat(<<WordB, D(10), WordB>>)>>)

\* \b(?:\d{4}[-\s]?){3}\d{4}\b
Re_credit_card ==
  Cat(<<WordB,
        Rep(Cat(<<D(4), Opt(Cls({"-"} \cup Space))>>), 3, 3),
        D(4),
        WordB>>)

\* (?:AM|PM)
Re_ampm == Alt(<<Cat(<<Lit("A"), Lit("M")>>), Cat(<<Lit("P"), Lit("M")>>)>>)

\* Mutant: the 24-hour pattern without its negative lookahead.
Re_time_24h_no_lookahead ==
  Cat(<<WordB,
        Alt(<<Cat(<<Cls({"0", "1"}), Cls(Digit)>>),
              Cat(<<Lit("2"), Cls({"0", "1", "2", "3"})>>)>>),
        Lit(":"), Cls({"0", "1", "2", "3", "4", "5"}), Cls(Digit),
        WordB>>)

\* \b(?:[01][0-9]|2[0-3]):[0-5][0-9](?!\s?(?:AM|PM))\b
Re_time_24h ==
  Cat(<<WordB,
        Alt(<<Cat(<<Cls({"0", "1"}), Cls(Digit)>>),
              Cat(<<Lit("2"), Cls({"0", "1", "2", "3"})>>)>>),
        Lit(":"), Cls({"0", "1", "2", "3", "4", "5"}), Cls(Digit),
        NotAhead(Cat(<<Opt(Cls(Space)), Re_ampm>>)),
        WordB>>)

\* Mutant: the 12-hour pattern without its leading word boundary.
Re_time_12h_no_boundary ==
  Cat(<<Alt(<<Cat(<<Opt(Lit("0")), Cls(Digit \ {"0"})>>),
              Cat(<<Lit("1"), Cls({"0", "1", "2"})>>)>>),
        Lit(":"), Cls({"0", "1", "2", "3", "4", "5"}), Cls(Digit),
        Opt(Cls(Space)), Re_ampm,
        WordB>>)

\* \b(?:0?[1-9]|1[0-2]):[0-5][0-9]\s?(?:AM|PM)\b
Re_time_12h ==
  Cat(<<WordB,
        Alt(<<Cat(<<Opt(Lit("0")), Cls(Digit \ {"0"})>>),
              Cat(<<Lit("1"), Cls({"0", "1", "2"})>>)>>),
        Lit(":"), Cls({"0", "1", "2", "3", "4", "5"}), Cls(Digit),
        Opt(Cls(Space)), Re_ampm,
        WordB>>)

\* (?<!#)#[A-Za-z0-9_]+\b
Re_hashtag ==
  Cat(<<NotBehind(Lit("#")), Lit("#"),
        Plus(Cls(Upper \cup Lower \cup Digit \cup {"_"})),
        WordB>>)

\* \$(?:\d{1,3}(?:,\d{3})+|\d+(?!,))(?:\.\d{2})?(?![\d,])
Re_currency ==
  Cat(<<Lit("$"),
        Alt(<<Cat(<<Rep(Cls(Digit), 1, 3), Plus(Cat(<<Lit(","), D(3)>>))>>),
              Cat(<<Plus(Cls(Digit)), NotAhead(Lit(","))>>)>>),
        Opt(Cat(<<Lit("."), D(2)>>)),
        NotAhead(Cls(Digit \cup {","}))>>)

\* The syntax tree of each pattern source of lines 12-26, by its registry key.
Parsed(src) ==
  CASE src = "email"       -> Re_email
    [] src = "url"         -> Re_url
    [] src = "phone"       -> Re_phone
    [] src = "credit_card" -> Re_credit_card
    [] src = "time_24h"    -> Re_time_24h
    [] src = "time_12h"    -> Re_time_12h
    [] src = "hashtag"     -> Re_hashtag
    [] src = "currency"    -> Re_currency

\* re.compile(pattern, flags): the compiled pattern object.
re_compile(src, flags) == [pattern |-> src, flags |-> flags]

\* self.patterns as __init__ builds it.
DataExtractor_init ==
  [email       |-> re_compile("email", {}),
   url         |-> re_compile("url", {}),
   phone       |-> re_compile("phone", {}),
   credit_card |-> re_compile("credit_card", {}),
   time_24h    |-> re_compile("time_24h", {"IGNORECASE"}),
   time_12h    |-> re_compile("time_12h", {"IGNORECASE"}),
   hashtag     |-> re_compile("hashtag", {}),
   currency    |-> re_compile("currency", {})]

(***************************************************************************)
(* Pattern.finditer / Pattern.findall: scan left to right, collecting the  *)
(* non-overlapping matches.  A span [s, e] is the match t[s .. e-1].       *)
(***************************************************************************)
RECURSIVE Scan(_, _, _)
Scan(p, t, pos) ==
  IF pos > Len(t) + 1 THEN <<>>
  ELSE LET e == MatchAt(Parsed(p.pattern), "IGNORECASE" \in p.flags, t, pos)
       IN IF e = 0 THEN Scan(p, t, pos + 1)
          ELSE <<[s |-> pos, e |-> e]>> \o Scan(p, t, IF e > pos THEN e ELSE pos + 1)

finditer(p, t) == Scan(p, t, 1)

\* match.group(0)
Group0(t, m) == SubSeq(t, m.s, m.e - 1)

\* No pattern has a capturing group, so findall returns the whole matches.
Groups(t, ms) == [j \in 1..Len(ms) |-> Group0(t, ms[j])]
findall(p, t) == Groups(t, finditer(p, t))

(***************************************************************************)
(* _unique_sorted: sorted(list(dict.fromkeys(items)), key=(len(s), s)).    *)
(***************************************************************************)
\* list(dict.fromkeys(items)): the first occurrence of each item, in order.
RECURSIVE FromKeys(_, _)
FromKeys(items, j) ==
  IF j > Len(items) THEN <<>>
  ELSE IF \E m \in 1..(j - 1) : items[m] = items[j]
       THEN FromKeys(items, j + 1)
       ELSE <<items[j]>> \o FromKeys(items, j + 1)

\* a < b on str: by code point, a proper prefix first.
RECURSIVE StrLess(_, _)
StrLess(a, b) ==
  IF b = <<>> THEN FALSE
  ELSE IF a = <<>> THEN TRUE
  ELSE IF Head(a) = Head(b) THEN StrLess(Tail(a), Tail(b))
  ELSE Ord(Head(a)) < Ord(Head(b))

\* (len(a), a) < (len(b), b)
KeyLess(a, b) == Len(a) < Len(b) \/ (Len(a) = Len(b) /\ StrLess(a, b))

\* sorted(): stable, ascending by key.
RECURSIVE Sorted(_)
Insert(x, ys) ==
  LET after == {m \in 1..Len(ys) : ~KeyLess(x, ys[m])}
      n == IF after = {} THEN 0 ELSE CHOOSE m \in after : \A q \in after : q <= m
  IN SubSeq(ys, 1, n) \o <<x>> \o SubSeq(ys, n + 1, Len(ys))
Sorted(xs) ==
  IF xs = <<>> THEN <<>>
  ELSE Insert(xs[Len(xs)], Sorted(SubSeq(xs, 1, Len(xs) - 1)))

\* Mutant: sorting without removing the duplicates.
unique_sorted_no_dedup(items) == Sorted(items)

unique_sorted(items) == Sorted(FromKeys(items, 1))

(***************************************************************************)
(* extract_all.  Scanned(self, t) is what the eight findall calls of one   *)
(* extract_all find, as spans; extract_all is the mapping returned.        *)
(***************************************************************************)
Keys == {"email", "url", "phone", "credit_card", "time_24h", "time_12h",
         "hashtag", "currency"}

Scanned(self, t) == [k \in Keys |-> finditer(self[k], t)]

\* Mutant: a category without a match is left out of the mapping.
Returned_omit_empty(t, ms) ==
  LET full == [emails        |-> Groups(t, ms.email),
               urls          |-> Groups(t, ms.url),
               phone_numbers |-> unique_sorted(Groups(t, ms.phone)),
               credit_cards  |-> unique_sorted(Groups(t, ms.credit_card)),
               time_12h      |-> unique_sorted(Groups(t, ms.time_12h)),
               time_24h      |-> unique_sorted(Groups(t, ms.time_24h)),
               hashtags      |-> unique_sorted(Groups(t, ms.hashtag)),
               currency      |-> unique_sorted(Groups(t, ms.currency))]
  IN [rk \in {x \in DOMAIN full : Len(full[x]) > 0} |-> full[rk]]

\* Mutant: emails and urls deduplicated and sorted like the other six.
Returned_all_unique_sorted(t, ms) ==
  [emails        |-> unique_sorted(Groups(t, ms.email)),
   urls          |-> unique_sorted(Groups(t, ms.url)),
   phone_numbers |-> unique_sorted(Groups(t, ms.phone)),
   credit_cards  |-> unique_sorted(Groups(t, ms.credit_card)),
   time_12h      |-> unique_sorted(Groups(t, ms.time_12h)),
   time_24h      |-> unique_sorted(Groups(t, ms.time_24h)),
   hashtags      |-> unique_sorted(Groups(t, ms.hashtag)),
   currency      |-> unique_sorted(Groups(t, ms.currency))]

Returned(t, ms) ==
  [emails        |-> Groups(t, ms.email),
   urls          |-> Groups(t, ms.url),
   phone_numbers |-> unique_sorted(Groups(t, ms.phone)),
   credit_cards  |-> unique_sorted(Groups(t, ms.credit_card)),
   time_12h      |-> unique_sorted(Groups(t, ms.time_12h)),
   time_24h      |-> unique_sorted(Groups(t, ms.time_24h)),
   hashtags      |-> unique_sorted(Groups(t, ms.hashtag)),
   currency      |-> unique_sorted(Groups(t, ms.currency))]

extract_all(self, t) == Returned(t, Scanned(self, t))

(***************************************************************************)
(* Input texts: concatenations of at most MaxTokens pieces of one          *)
(* vocabulary.                                                             *)
(***************************************************************************)
MaxTokens == 3

\* pieces of 12-hour and 24-hour times:
\*   "09:12"  "9:00"  "13:30"  "00:45"  ":15"  " AM"  "pm"  " "
TimeTokens ==
  {<<"0", "9", ":", "1", "2">>,
   <<"9", ":", "0", "0">>,
   <<"1", "3", ":", "3", "0">>,
   <<"0", "0", ":", "4", "5">>,
   <<":", "1", "5">>,
   <<" ", "A", "M">>,
   <<"p", "m">>,
   <<" ">>}

\* pieces of phone numbers and digit runs:
\*   "(555) "  "555-"  "555"  "1234"  "1234567890"  "1"  " "  "a"
PhoneTokens ==
  {<<"(", "5", "5", "5", ")", " ">>,
   <<"5", "5", "5", "-">>,
   <<"5", "5", "5">>,
   <<"1", "2", "3", "4">>,
   <<"1", "2", "3", "4", "5", "6", "7", "8", "9", "0">>,
   <<"1">>,
   <<" ">>,
   <<"a">>}

\* pieces of currency amounts:
\*   "$19"  ".99"  ","  "$1,299"  ".50"  " "  "5"  "$"
CurrencyTokens ==
  {<<"$", "1", "9">>,
   <<".", "9", "9">>,
   <<",">>,
   <<"$", "1", ",", "2", "9", "9">>,
   <<".", "5", "0">>,
   <<" ">>,
   <<"5">>,
   <<"$">>}

\* hashtags and card numbers:
\*   "#Go"  "#go"  "#a"  "#"  " "  "4532 1234 5678 9012"  "1234-5678-9012-3456"
TagTokens ==
  {<<"#", "G", "o">>,
   <<"#", "g", "o">>,
   <<"#", "a">>,
   <<"#">>,
   <<" ">>,
   <<"4", "5", "3", "2", " ", "1", "2", "3", "4", " ", "5", "6", "7", "8", " ", "9", "0", "1", "2">>,
   <<"1", "2", "3", "4", "-", "5", "6", "7", "8", "-", "9", "0", "1", "2", "-", "3", "4", "5", "6">>}

\* emails, URLs and closing punctuation:
\*   "a@b.com"  "c@d.org"  "https://x.com/y"  "http://z.io"  ","  " "  ")"
MailTokens ==
  {<<"a", "@", "b", ".", "c", "o", "m">>,
   <<"c", "@", "d", ".", "o", "r", "g">>,
   <<"h", "t", "t", "p", "s", ":", "/", "/", "x", ".", "c", "o", "m", "/", "y">>,
   <<"h", "t", "t", "p", ":", "/", "/", "z", ".", "i", "o">>,
   <<",">>,
   <<" ">>,
   <<")">>}

RECURSIVE Flatten(_)
Flatten(ts) == IF ts = <<>> THEN <<>> ELSE Head(ts) \o Flatten(Tail(ts))

TextsOver(vocab) ==
  {Flatten(ts) : ts \in UNION {[1..n -> vocab] : n \in 0..MaxTokens}}

Inputs ==
  TextsOver(TimeTokens) \cup TextsOver(PhoneTokens) \cup TextsOver(CurrencyTokens)
    \cup TextsOver(TagTokens) \cup TextsOver(MailTokens)

\* Texts of the calls that follow the first one on the same engine.
LaterInputs ==
  {<<>>,
   <<"9", ":", "0", "0", " ", "a", "m">>,
   <<"#", "G", "o", " ", "$", "5">>}

ResultKeys == {"emails", "urls", "phone_numbers", "credit_cards", "time_12h",
               "time_24h", "hashtags", "currency"}

(***************************************************************************)
(* The engine: one DataExtractor instance and the calls made on it.        *)
(*   patterns  self.patterns                                               *)
(*   text      the text the caller passes to extract_all                   *)
(*   called    whether extract_all(text) has returned                      *)
(*   matches   the matches (spans) each pattern found in that call         *)
(*   result    the mapping that call returned                              *)
(***************************************************************************)
NoMatches == [k \in Keys |-> <<>>]
NoResult  == [k \in {} |-> <<>>]

\* Mutant: the call recompiles the 12-hour pattern without its flag.
ExtractAllCall_recompiling ==
  /\ ~called
  /\ matches' = Scanned(patterns, text)
  /\ result' = Returned(text, matches')
  /\ called' = TRUE
  /\ patterns' = [patterns EXCEPT !.time_12h = re_compile("time_12h", {})]
  /\ UNCHANGED text
  /\ UNCHANGED demoVars

\* results = extractor.extract_all(text)
ExtractAllCall ==
  /\ ~called
  /\ matches' = Scanned(patterns, text)
  /\ result' = Returned(text, matches')
  /\ called' = TRUE
  /\ UNCHANGED <<patterns, text>>
  /\ UNCHANGED demoVars

\* The caller takes the next text for the same engine: the same one again,
\* or another one.
NextText ==
  /\ called
  /\ \E t \in LaterInputs \cup {text} : text' = t
  /\ called' = FALSE
  /\ matches' = NoMatches
  /\ result' = NoResult
  /\ UNCHANGED patterns
  /\ UNCHANGED demoVars

DemoIdle ==
  /\ pc = "idle" /\ argv = <<>> /\ typed = <<>> /\ fileState = "ok"
  /\ fileText = <<>> /\ outState = "ok" /\ filename = <<>> /\ results = <<>>
  /\ stdout = <<>> /\ trace = <<>> /\ crashed = "no"

Init ==
  /\ patterns = DataExtractor_init
  /\ text \in Inputs
  /\ called = FALSE
  /\ matches = NoMatches
  /\ result = NoResult
  /\ DemoIdle

Next == ExtractAllCall \/ NextText

Spec == Init /\ [][Next]_vars

(***************************************************************************)
(* process_file and demo.  The environment of one run:                     *)
(*   argv       sys.argv[1], "" when no argument is given                  *)
(*   typed      what the user types at the prompt                          *)
(*   fileState  "ok", "missing" (open raises FileNotFoundError), "denied"  *)
(*              (open raises another OSError), "undecodable" (read raises   *)
(*              UnicodeDecodeError)                                        *)
(*   fileText   the decoded content of a readable file                     *)
(*   outState   "ok", "open_fails", "write_fails" for the results file     *)
(* and the run itself:                                                     *)
(*   pc         the position in demo                                       *)
(*   filename   demo's local                                               *)
(*   results    demo's local: None is <<>>, a mapping m is <<m>>           *)
(*   stdout     the messages printed                                       *)
(*   trace      the calls process_file made, in order                      *)
(*   crashed    the exception that left demo uncaught, "no" if none        *)
(***************************************************************************)
None == <<>>
Some(x) == <<x>>

FileNames == {<<"n", ".", "t", "x", "t">>, <<"d", "/", "n", ".", "t", "x", "t">>}
DefaultName == <<"s", "a", "m", "p", "l", "e", "_", "d", "a", "t", "a", ".", "t", "x", "t">>

\* Lines of the sample file written by create_sample_file, and the empty file:
\*   ""  "Time: 9:00 AM, 14:30"  "Price: $19.99, $1,299.50"
DemoTexts ==
  {<<>>,
   <<"T", "i", "m", "e", ":", " ", "9", ":", "0", "0", " ", "A", "M", ",", " ", "1", "4", ":", "3", "0">>,
   <<"P", "r", "i", "c", "e", ":", " ", "$", "1", "9", ".", "9", "9", ",", " ", "$", "1", ",", "2", "9", "9", ".", "5", "0">>}

\* str.strip()
RECURSIVE LStrip(_)
LStrip(x) == IF x # <<>> /\ Head(x) \in Space THEN LStrip(Tail(x)) ELSE x
RECURSIVE RStrip(_)
RStrip(x) ==
  IF x # <<>> /\ x[Len(x)] \in Space THEN RStrip(SubSeq(x, 1, Len(x) - 1)) ELSE x
Strip(x) == RStrip(LStrip(x))

InitDemo ==
  /\ patterns = DataExtractor_init
  /\ text = <<>>
  /\ called = FALSE
  /\ matches = NoMatches
  /\ result = NoResult
  /\ pc = "start"
  /\ argv \in {<<>>} \cup FileNames
  /\ typed \in {<<>>, <<" ">>} \cup FileNames
  /\ fileState \in {"ok", "missing", "denied", "undecodable"}
  /\ fileText \in DemoTexts
  /\ outState \in {"ok", "open_fails", "write_fails"}
  /\ filename = <<>>
  /\ results = None
  /\ stdout = <<>>
  /\ trace = <<>>
  /\ crashed = "no"

\* demo, lines 70-78: the file name from the command line, the prompt or the default.
DemoStart ==
  /\ pc = "start"
  /\ filename' = IF argv # <<>> THEN argv
                 ELSE IF Strip(typed) # <<>> THEN Strip(typed)
                 ELSE DefaultName
  /\ stdout' = Append(stdout, "Processing file")
  /\ pc' = "process"
  /\ UNCHANGED <<argv, typed, fileState, fileText, outState, results, trace, crashed>>
  /\ UNCHANGED coreVars

\* Mutant: process_file without the `except Exception` handler.
process_file_one_handler ==
  /\ pc = "process"
  /\ \/ /\ fileState = "missing"
        /\ trace' = <<"open">>
        /\ stdout' = Append(stdout, "Error: File not found")
        /\ results' = None
        /\ UNCHANGED crashed
     \/ /\ fileState = "denied"
        /\ trace' = <<"open">>
        /\ crashed' = "PermissionError in open"
        /\ UNCHANGED <<stdout, results>>
     \/ /\ fileState = "undecodable"
        /\ trace' = <<"open", "read">>
        /\ crashed' = "UnicodeDecodeError in read"
        /\ UNCHANGED <<stdout, results>>
     \/ /\ fileState = "ok"
        /\ trace' = <<"open", "read", "DataExtractor", "extract_all">>
        /\ results' = Some(extract_all(DataExtractor_init, fileText))
        /\ UNCHANGED <<stdout, crashed>>
  /\ pc' = "returned"
  /\ UNCHANGED <<argv, typed, fileState, fileText, outState, filename>>
  /\ UNCHANGED coreVars

\* process_file(filename), lines 47-62, called at line 79.
process_file ==
  /\ pc = "process"
  /\ \/ /\ fileState = "missing"
        /\ trace' = <<"open">>
        /\ stdout' = Append(stdout, "Error: File not found")
        /\ results' = None
     \/ /\ fileState = "denied"
        /\ trace' = <<"open">>
        /\ stdout' = Append(stdout, "Error reading file")
        /\ results' = None
     \/ /\ fileState = "undecodable"
        /\ trace' = <<"open", "read">>
        /\ stdout' = Append(stdout, "Error reading file")
        /\ results' = None
     \/ /\ fileState = "ok"
        /\ trace' = <<"open", "read", "DataExtractor", "extract_all">>
        /\ results' = Some(extract_all(DataExtractor_init, fileText))
        /\ UNCHANGED stdout
  /\ pc' = "returned"
  /\ UNCHANGED <<argv, typed, fileState, fileText, outState, filename, crashed>>
  /\ UNCHANGED coreVars

\* demo, lines 81-103: stop without results, else print them (`not results`
\* is true of None only: a returned mapping always has its eight keys).
DemoReport ==
  /\ pc = "returned"
  /\ \/ /\ results = None
        /\ pc' = "done"
        /\ UNCHANGED stdout
     \/ /\ results # None
        /\ stdout' = Append(stdout, "EXTRACTION RESULTS")
        /\ pc' = "save"
  /\ UNCHANGED <<argv, typed, fileState, fileText, outState, filename, results,
                 trace, crashed>>
  /\ UNCHANGED coreVars

\* demo, lines 106-109: open the results file and json.dump into it.
DemoSave ==
  /\ pc = "save"
  /\ \/ /\ outState = "ok"
        /\ stdout' = Append(stdout, "Results saved")
        /\ UNCHANGED crashed
     \/ /\ outState = "open_fails"
        /\ crashed' = "OSError in open"
        /\ UNCHANGED stdout
     \/ /\ outState = "write_fails"
        /\ crashed' = "OSError in json.dump"
        /\ UNCHANGED stdout
  /\ pc' = "done"
  /\ UNCHANGED <<argv, typed, fileState, fileText, outState, filename, results, trace>>
  /\ UNCHANGED coreVars

NextDemo == DemoStart \/ process_file \/ DemoReport \/ DemoSave

SpecDemo == InitDemo /\ [][NextDemo]_vars

(***************************************************************************)
(* Properties.                                                             *)
(***************************************************************************)
\* The pattern behind each key of the returned mapping.
PatternOf(rk) ==
  CASE rk = "emails"        -> "email"
    [] rk = "urls"          -> "url"
    [] rk = "phone_numbers" -> "phone"
    [] rk = "credit_cards"  -> "credit_card"
    [] rk = "time_12h"      -> "time_12h"
    [] rk = "time_24h"      -> "time_24h"
    [] rk = "hashtags"      -> "hashtag"
    [] rk = "currency"      -> "currency"

DedupSortedKeys == {"phone_numbers", "credit_cards", "time_12h", "time_24h",
                    "hashtags", "currency"}
RawOrderedKeys  == {"emails", "urls"}

\* The strings the pattern behind rk matched in the text, one per match.
MatchedStrings(rk) ==
  LET ms == matches[PatternOf(rk)]
  IN [j \in 1..Len(ms) |-> SubSeq(text, ms[j].s, ms[j].e - 1)]

Elements(xs) == {xs[j] : j \in 1..Len(xs)}

\* C1: every extract_all call, also on the empty text and on a text that
\* nothing matches, returns a mapping whose keys are exactly the eight
\* categories, and a category without a match maps to the empty sequence.
C1_EightKeysAlways ==
  called =>
    /\ DOMAIN result = ResultKeys
    /\ \A rk \in ResultKeys :
         matches[PatternOf(rk)] = <<>> => Len(result[rk]) = 0
    /\ text = <<>> => \A rk \in ResultKeys : Len(result[rk]) = 0

C1_Witness ==
  /\ called
  /\ text = <<>>
  /\ DOMAIN result = ResultKeys
  /\ \A rk \in ResultKeys : Len(result[rk]) = 0

\* a before b in ordinal order, for strings of one length.
OrdinalLess(a, b) ==
  \E q \in 1..Len(a) :
    /\ \A r \in 1..(q - 1) : a[r] = b[r]
    /\ Ord(a[q]) < Ord(b[q])

\* C2: each of the six deduplicated categories holds exactly the distinct
\* strings its pattern matched, none twice, in ascending order of length and,
\* for equal lengths, in ordinal lexicographic order.
C2_DedupSorted ==
  called =>
    \A rk \in DedupSortedKeys :
      LET out == result[rk] IN
        /\ Elements(out) = Elements(MatchedStrings(rk))
        /\ \A i, j \in 1..Len(out) : i # j => out[i] # out[j]
        /\ \A i \in 1..(Len(out) - 1) :
             \/ Len(out[i]) < Len(out[i + 1])
             \/ Len(out[i]) = Len(out[i + 1]) /\ OrdinalLess(out[i], out[i + 1])

\* "#go#Go#go": three matches, two distinct strings, `#Go` before `#go`.
C2_Witness ==
  /\ called
  /\ Len(matches.hashtag) = 3
  /\ result.hashtags = << <<"#", "G", "o">>, <<"#", "g", "o">> >>
  /\ MatchedStrings("hashtags")[1] = <<"#", "g", "o">>

\* C3: emails and urls list every non-overlapping match of their pattern from
\* left to right: the matches lie one after the other in the text, each is a
\* match of the pattern where it starts, the pattern matches at no position
\* outside them, and the output is their strings in that order, a repeated
\* string as often as it is matched.
C3_RawOrdered ==
  called =>
    \A rk \in RawOrderedKeys :
      LET p  == patterns[PatternOf(rk)]
          ms == matches[PatternOf(rk)]
          at(q) == MatchAt(Parsed(p.pattern), "IGNORECASE" \in p.flags, text, q)
      IN /\ \A j \in 1..Len(ms) : ms[j].s < ms[j].e /\ at(ms[j].s) = ms[j].e
         /\ \A j \in 1..(Len(ms) - 1) : ms[j].e <= ms[j + 1].s
         /\ \A q \in 1..Len(text) :
              (\A j \in 1..Len(ms) : q < ms[j].s \/ q >= ms[j].e) => at(q) = 0
         /\ Len(result[rk]) = Len(ms)
         /\ \A j \in 1..Len(ms) : result[rk][j] = SubSeq(text, ms[j].s, ms[j].e - 1)

\* The same address twice in the text, and twice in emails.
C3_Witness ==
  /\ called
  /\ Len(result.emails) = 2
  /\ result.emails[1] = result.emails[2]

\* AM or PM, in any letter case, at position i.
IsAmPm(t, i) ==
  /\ i + 1 <= Len(t)
  /\ t[i] \in {"A", "a", "P", "p"}
  /\ t[i + 1] \in {"M", "m"}

\* An optional single whitespace and AM/PM follow position i.
AmPmFollows(t, i) ==
  \/ IsAmPm(t, i)
  \/ i <= Len(t) /\ t[i] \in Space /\ IsAmPm(t, i + 1)

\* The position after the minutes of a time that starts at position s.
AfterMinutes(t, s) == (CHOOSE q \in s..Len(t) : t[q] = ":") + 3

\* C4: a time followed by an optional whitespace and AM/PM is never a
\* time_24h match, every time_12h match carries its AM/PM, and no position of
\* the text starts a match of both; the two output lists share no string.
C4_TimeExclusive ==
  called =>
    /\ \A j \in 1..Len(matches.time_24h) :
         ~AmPmFollows(text, matches.time_24h[j].e)
    /\ \A j \in 1..Len(matches.time_12h) :
         AmPmFollows(text, AfterMinutes(text, matches.time_12h[j].s))
    /\ \A i \in 1..Len(matches.time_24h), j \in 1..Len(matches.time_12h) :
         matches.time_24h[i].s # matches.time_12h[j].s
    /\ Elements(result.time_24h) \cap Elements(result.time_12h) = {}

\* A text with a 24-hour and a 12-hour time, as "09:12:15 AM".
C4_Witness ==
  /\ called
  /\ Len(result.time_24h) = 1
  /\ Len(result.time_12h) = 1

\* C5: after any calls, the registry is the one __init__ built and the
\* mapping returned for a text is the one a fresh engine returns for it.
C5_PureFunction ==
  /\ patterns = DataExtractor_init
  /\ called => result = extract_all(DataExtractor_init, text)

\* A call that followed another one on the same engine ("9:00 am" is only
\* passed after a first call).
C5_Witness ==
  /\ called
  /\ text = <<"9", ":", "0", "0", " ", "a", "m">>
  /\ result.time_12h = <<text>>

\* C6: when opening or reading the file fails, process_file reports the
\* error, does not call extract_all and returns None without raising;
\* extract_all is called only after the read succeeded.
C6_ReadFailure ==
  /\ (pc \in {"returned", "save", "done"} /\ fileState # "ok") =>
        /\ results = None
        /\ crashed = "no"
        /\ \A j \in 1..Len(trace) : trace[j] # "extract_all"
        /\ \E j \in 1..Len(stdout) :
             stdout[j] \in {"Error: File not found", "Error reading file"}
  /\ \A j \in 1..Len(trace) :
        trace[j] = "extract_all" =>
          /\ fileState = "ok"
          /\ \E r \in 1..(j - 1) : trace[r] = "read"

C6_Witness ==
  /\ pc = "returned"
  /\ fileState = "undecodable"
  /\ results = None
  /\ stdout[Len(stdout)] = "Error reading file"

\* C7: every collaborator failure of a demo run is caught: no exception
\* leaves demo uncaught.
C7_NoUncaughtException == crashed = "no"

\* The text continues the amount that ends before position e: a further
\* digit, a comma, or a point and two digits.
AmountContinues(t, e) ==
  \/ e <= Len(t) /\ t[e] \in Digit \cup {","}
  \/ e + 2 <= Len(t) /\ t[e] = "." /\ t[e + 1] \in Digit /\ t[e + 2] \in Digit

\* C8: no currency match is a truncated prefix of the amount written at its $.
C8_NoPartialAmount ==
  called =>
    \A j \in 1..Len(matches.currency) :
      ~AmountContinues(text, matches.currency[j].e)

\* At position i: a two-digit hour 00 or 13-23 after a word boundary, a
\* colon, minutes 00-59, an optional whitespace and AM/PM.
BadHour12At(t, i) ==
  /\ ~IsWordAt(t, i - 1)
  /\ i + 4 <= Len(t)
  /\ \/ t[i] = "0" /\ t[i + 1] = "0"
     \/ t[i] = "1" /\ t[i + 1] \in Digit \ {"0", "1", "2"}
     \/ t[i] = "2" /\ t[i + 1] \in {"0", "1", "2", "3"}
  /\ t[i + 2] = ":"
  /\ t[i + 3] \in {"0", "1", "2", "3", "4", "5"}
  /\ t[i + 4] \in Digit
  /\ AmPmFollows(t, i + 5)

\* The position after the AM/PM of such a token.
BadHour12End(t, i) == IF IsAmPm(t, i + 5) THEN i + 7 ELSE i + 8

\* C9: a token like "13:30 AM" starts no time_12h and no time_24h match,
\* neither at its first character nor at a later one.
C9_BadHourUnmatched ==
  called =>
    \A i \in 1..Len(text) :
      BadHour12At(text, i) =>
        \A k \in {"time_12h", "time_24h"} :
          \A j \in 1..Len(matches[k]) :
            matches[k][j].s < i \/ matches[k][j].s >= BadHour12End(text, i)

\* "13:30 AM" after other text.
C9_Witness ==
  /\ called
  /\ \E i \in 2..Len(text) :
       /\ BadHour12At(text, i)
       /\ i + 7 <= Len(text)
       /\ SubSeq(text, i, i + 7) = <<"1", "3", ":", "3", "0", " ", "A", "M">>

\* C10: a phone match that is a bare run of digits is exactly 10 digits long
\* and has a word boundary on both sides.
C10_BareRunDelimited ==
  called =>
    \A j \in 1..Len(matches.phone) :
      LET m == matches.phone[j] IN
        (\A q \in m.s..(m.e - 1) : text[q] \in Digit) =>
          /\ m.e - m.s = 10
          /\ ~IsWordAt(text, m.s - 1)
          /\ ~IsWordAt(text, m.e)

====
